---- MODULE Spec2Model ----
(***************************************************************************)
(* Model of psycopg2's lib/extras.py: DictCursor / DictRow (name-indexed   *)
(* rows) and LoggingConnection / LoggingCursor with their MinTime          *)
(* specialisations.                                                        *)
(*                                                                         *)
(* Python objects with identity (the dict held in cursor.index and shared  *)
(* by reference with every DictRow) live in a heap, `dicts`.  The wrapped  *)
(* C cursor (psycopg2.extensions.cursor) is the environment: its execute   *)
(* and fetch primitives return or raise nondeterministically.              *)
(***************************************************************************)
EXTENDS Integers, Sequences, FiniteSets, TLC

\* ------------------------------------------------------------------ bounds
MaxCols == 2
MaxRows == 2
MaxExec == 2
MaxFetch == 2

Names == {"a", "b"}

\* ------------------------------------------------- DictCursor: state
VARIABLES
  dicts,           \* heap of dict objects: dicts[k] is a name -> position map
  index,           \* cursor.index: id of a dict in the heap, 0 = attribute unset
  row_factory,     \* cursor.row_factory: "DictRow" once execute has set it
  query_executed,  \* cursor.__query_executed (class attribute default 0)
  description,     \* cursor.description of the wrapped cursor; <<>> = None
  rows,            \* rows of the current result set not fetched yet
  handed,          \* every row handed to the caller, with what it saw then
  lastOp,          \* the last call on the cursor and what the caller observed
  builds,          \* index builds since the last execute/callproc
  fetchCalls,      \* fetchone/fetchmany/fetchall/next calls since then
  fetchReturns,    \* ... of which those that returned to the caller
  builtAt,         \* fetchReturns ordinal of the call that built, 0 = none
  builtSnap,       \* the mapping as the build left it, EmptyDict before
  lastDesc,        \* descriptors of the last statement the server executed
  execs            \* execute/callproc calls so far

dvars == <<dicts, index, row_factory, query_executed, description, rows,
           handed, lastOp, builds, fetchCalls, fetchReturns, builtAt,
           builtSnap, lastDesc, execs>>

\* ------------------------------------------------- dict objects
EmptyDict == [n \in {} |-> 0]

\* d[k] = v
Put(d, k, v) == [x \in (DOMAIN d) \cup {k} |-> IF x = k THEN v ELSE d[x]]

\* ------------------------------------------------- the wrapped cursor
\* Column descriptors: every sequence of up to MaxCols names, each name at
\* most once in a result set; <<>> = no descriptors (a non-SELECT).
Descs == {d \in UNION {[1..k -> Names] : k \in 0..MaxCols} :
            \A i, j \in DOMAIN d : d[i] = d[j] => i = j}

Stmts == {s \in [desc : Descs, nrows : 0..MaxRows] :
            s.desc = <<>> => s.nrows = 0}

\* The value the database returns in row r (1-based), column i (0-based).
Val(r, i) == 10 * r + i

ResultRows(s) == [r \in 1..s.nrows |-> [i \in 1..Len(s.desc) |-> Val(r, i - 1)]]

Take(s, k) == SubSeq(s, 1, IF k < Len(s) THEN k ELSE Len(s))
Drop(s, k) == SubSeq(s, (IF k < Len(s) THEN k ELSE Len(s)) + 1, Len(s))

\* ------------------------------------------------- DictRow
\* DictRow.__init__: keeps a reference to cursor.index and sizes the list
\* from cursor.description; the wrapped cursor then stores the values.
DictRowInit(idx, desc, tuple) ==
  [_index |-> idx, vals |-> [i \in 1..Len(desc) |-> tuple[i]]]

\* DictRow.__getitem__: x is a name (string) or a 0-based position.
\* Result: [err |-> "none", val |-> v] or [err |-> "KeyError"/"IndexError"].
ListGetItem(vals, p) ==
  IF p >= 0 /\ p < Len(vals) THEN [err |-> "none", val |-> vals[p + 1]]
  ELSE [err |-> "IndexError", val |-> -1]

GetItemByName(heap, row, x) ==
  IF x \in DOMAIN heap[row._index]
  THEN ListGetItem(row.vals, heap[row._index][x])
  ELSE [err |-> "KeyError", val |-> -1]

GetItemByPos(row, p) == ListGetItem(row.vals, p)

\* DictRow.get(x, default): try: return self[x]  except: return default
GetNoExcept(heap, row, x, default) == GetItemByName(heap, row, x)

Get(heap, row, x, default) ==
  LET r == GetItemByName(heap, row, x)
  IN IF r.err = "none" THEN r ELSE [err |-> "none", val |-> default]

\* dict.keys() / dict.items(): a plain dict enumerates its keys in an order
\* of its own (hash order), not the order of insertion; every enumeration
\* of the keys is a possible outcome.
DictOrders(d) ==
  {o \in [1..Cardinality(DOMAIN d) -> DOMAIN d] :
     \A i, j \in DOMAIN o : o[i] = o[j] => i = j}

\* DictRow.keys(): return self._index.keys()
Keys(heap, row) == DictOrders(heap[row._index])

\* DictRow.items(): for n, v in self._index.items():
\*                     res.append((n, list.__getitem__(self, v)))
Items(heap, row) ==
  {[i \in DOMAIN o |-> <<o[i], ListGetItem(row.vals, heap[row._index][o[i]]).val>>] :
     o \in DictOrders(heap[row._index])}

\* ------------------------------------------------- DictCursor._build_index
RECURSIVE BuildLoopOffByOne(_, _, _)
BuildLoopOffByOne(d, desc, i) ==
  IF i >= Len(desc) THEN d
  ELSE BuildLoopOffByOne(Put(d, desc[i + 1], i + 1), desc, i + 1)

\* for i in range(len(description)): index[description[i][0]] = i
RECURSIVE BuildLoop(_, _, _)
BuildLoop(d, desc, i) ==
  IF i >= Len(desc) THEN d
  ELSE BuildLoop(Put(d, desc[i + 1], i), desc, i + 1)

BuildIndexKeepsFlag(d, qe, desc) ==
  IF qe = 1 /\ desc # <<>>
  THEN [dict |-> BuildLoop(d, desc, 0), qe |-> 1, built |-> 1]
  ELSE [dict |-> d, qe |-> qe, built |-> 0]

\* _build_index on dict d with flag qe: the new dict, the new flag and
\* whether the loop ran.
BuildIndex(d, qe, desc) ==
  IF qe = 1 /\ desc # <<>>
  THEN [dict |-> BuildLoop(d, desc, 0), qe |-> 0, built |-> 1]
  ELSE [dict |-> d, qe |-> qe, built |-> 0]

\* ------------------------------------------------- DictCursor.execute
\* self.index = {} : the heap and the reference after the assignment.
ResetIndexKeep(heap, idx) ==
  IF idx = 0 THEN [heap |-> Append(heap, EmptyDict), idx |-> Len(heap) + 1]
  ELSE [heap |-> heap, idx |-> idx]

ResetIndexInPlace(heap, idx) ==
  IF idx = 0 THEN [heap |-> Append(heap, EmptyDict), idx |-> Len(heap) + 1]
  ELSE [heap |-> [heap EXCEPT ![idx] = EmptyDict], idx |-> idx]

ResetIndex(heap, idx) ==
  [heap |-> Append(heap, EmptyDict), idx |-> Len(heap) + 1]

NoRows == <<>>

\* execute(query) / callproc(procname): lines 45-47 run first, then the
\* wrapped primitive, which returns ("ok"), raises before it touched the
\* previous result ("raise_early": bad arguments), or raises after it
\* dropped it ("raise_late": the server rejected the statement).
DictExec(name, s, out) ==
  /\ execs < MaxExec
  /\ LET r == ResetIndex(dicts, index) IN
       /\ dicts' = r.heap
       /\ index' = r.idx
  /\ row_factory' = "DictRow"
  /\ query_executed' = 1
  /\ CASE out = "ok"          -> /\ description' = s.desc
                                 /\ rows' = ResultRows(s)
                                 /\ lastDesc' = s.desc
       [] out = "raise_early" -> UNCHANGED <<description, rows, lastDesc>>
       [] out = "raise_late"  -> /\ description' = <<>>
                                 /\ rows' = NoRows
                                 /\ UNCHANGED lastDesc
  /\ lastOp' = [name |-> name, outcome |-> IF out = "ok" THEN "return" ELSE "raise",
                res |-> <<>>]
  /\ builds' = 0
  /\ fetchCalls' = 0
  /\ fetchReturns' = 0
  /\ builtAt' = 0
  /\ builtSnap' = EmptyDict
  /\ execs' = execs + 1
  /\ UNCHANGED handed

Execute == \E s \in Stmts, out \in {"ok", "raise_early", "raise_late"} :
             DictExec("execute", s, out)

Callproc == \E s \in Stmts, out \in {"ok", "raise_early", "raise_late"} :
              DictExec("callproc", s, out)

\* ------------------------------------------------- DictCursor fetches
\* The wrapped fetch raised (no result set to fetch from): the wrapper is
\* left before its flag test.
FetchRaises(name) ==
  /\ fetchCalls < MaxFetch
  /\ description = <<>>
  /\ lastOp' = [name |-> name, outcome |-> "raise", res |-> <<>>]
  /\ fetchCalls' = fetchCalls + 1
  /\ UNCHANGED <<dicts, index, row_factory, query_executed, description, rows,
                 handed, builds, fetchReturns, builtAt, builtSnap, lastDesc,
                 execs>>

HandedOf(heap, res, desc) ==
  {[row |-> res[j], snap |-> heap[res[j]._index], desc |-> desc] : j \in 1..Len(res)}

\* The wrapped fetch returned k rows, each built by row_factory(cursor);
\* then `if self.__query_executed: self._build_index()`; then return res.
FetchReturns(name, k) ==
  /\ fetchCalls < MaxFetch
  /\ index # 0
  /\ LET got == Take(rows, k)
         res == [j \in 1..Len(got) |-> DictRowInit(index, description, got[j])]
         b   == IF query_executed # 0
                THEN BuildIndex(dicts[index], query_executed, description)
                ELSE [dict |-> dicts[index], qe |-> query_executed, built |-> 0]
         heap == [dicts EXCEPT ![index] = b.dict]
     IN
       /\ dicts' = heap
       /\ query_executed' = b.qe
       /\ builds' = builds + b.built
       /\ builtAt' = IF b.built = 1 /\ builtAt = 0 THEN fetchReturns + 1 ELSE builtAt
       /\ builtSnap' = IF b.built = 1 THEN b.dict ELSE builtSnap
       /\ handed' = handed \cup HandedOf(heap, res, description)
       /\ lastOp' = [name |-> name, outcome |-> "return", res |-> res]
  /\ rows' = Drop(rows, k)
  /\ fetchCalls' = fetchCalls + 1
  /\ fetchReturns' = fetchReturns + 1
  /\ UNCHANGED <<index, row_factory, description, lastDesc, execs>>

Fetchone ==
  \/ FetchRaises("fetchone")
  \/ FetchReturns("fetchone", 1)

Fetchmany ==
  \/ FetchRaises("fetchmany")
  \/ \E size \in 1..MaxRows : FetchReturns("fetchmany", size)

Fetchall ==
  \/ FetchRaises("fetchall")
  \/ FetchReturns("fetchall", Len(rows))

\* next(): res = fetchone(); if res is None: raise StopIteration() comes
\* before the flag test.
NextStop ==
  /\ fetchCalls < MaxFetch
  /\ index # 0
  /\ rows = NoRows
  /\ lastOp' = [name |-> "next", outcome |-> "StopIteration", res |-> <<>>]
  /\ fetchCalls' = fetchCalls + 1
  /\ UNCHANGED <<dicts, index, row_factory, query_executed, description, rows,
                 handed, builds, fetchReturns, builtAt, builtSnap, lastDesc,
                 execs>>

NextRow ==
  \/ FetchRaises("next")
  \/ rows # NoRows /\ FetchReturns("next", 1)
  \/ NextStop

\* DictRow.__getitem__ only reads: the heap after row[x]
GetItemHeapSetDefault(heap, row, x) ==
  IF x \in DOMAIN heap[row._index] THEN heap
  ELSE [heap EXCEPT ![row._index] = Put(@, x, 0)]

GetItemHeap(heap, row, x) == heap

\* The caller looks a name up in a row it holds: row[x]
RowGetItem ==
  \E h \in handed, x \in Names :
    LET r == GetItemByName(dicts, h.row, x) IN
      /\ dicts' = GetItemHeap(dicts, h.row, x)
      /\ lastOp' = [name |-> "getitem",
                    outcome |-> IF r.err = "none" THEN "return" ELSE r.err,
                    res |-> <<>>]
      /\ UNCHANGED <<index, row_factory, query_executed, description, rows,
                     handed, builds, fetchCalls, fetchReturns, builtAt,
                     builtSnap, lastDesc, execs>>

DictInit ==
  /\ dicts = <<>>
  /\ index = 0
  /\ row_factory = "default"
  /\ query_executed = 0
  /\ description = <<>>
  /\ rows = NoRows
  /\ handed = {}
  /\ lastOp = [name |-> "init", outcome |-> "return", res |-> <<>>]
  /\ builds = 0
  /\ fetchCalls = 0
  /\ fetchReturns = 0
  /\ builtAt = 0
  /\ builtSnap = EmptyDict
  /\ lastDesc = <<>>
  /\ execs = 0

\* ================================================= logging: bounds
MaxCalls == 2      \* execute/callproc calls started on logging cursors
MaxClock == 2
MaxMintime == 1    \* largest threshold passed to initialize, in ms
TicksPerMs == 1

Cursors == {1, 2}
Sinks == {"file1", "logger1"}
Queries == {"", "q1", "q2"}

\* ------------------------------------------------- logging: state
VARIABLES
  connClass,   \* "LoggingConnection" or "MinTimeLoggingConnection"
  logobj,      \* connection._logobj: a sink, "unset" = no such attribute
  log,         \* connection.log: "_logtofile", "_logtologger" or "unset"
  mintime,     \* connection._mintime in ms, -1 = no such attribute
  cur,         \* per cursor: class, timestamp, the call in progress
  now,         \* time.time(), in ticks
  sinkCalls,   \* per sink: the write()/debug() calls it received, in order
  lastCall,    \* the last completed call and what its caller observed
  calls,       \* execute/callproc calls started so far
  nonEmpty,    \* completed calls whose filter result was non-empty
  uninitExec   \* a statement ran on a cursor of an uninitialized connection

lvars == <<connClass, logobj, log, mintime, cur, now, sinkCalls, lastCall,
           calls, nonEmpty, uninitExec>>

\* ------------------------------------------------- message text
\* A text is a sequence of tokens; NONE is Python's None; <<>> is ''.
NONE == <<"<None>">>
LINESEP == "<linesep>"

Truthy(msg) == msg # NONE /\ msg # <<>>

\* cursor.query as the wrapped primitive materializes statement q
Text(q) == IF q = "" THEN <<>> ELSE <<q>>

\* "  (execution time: %d ms)" % t : %d truncates the float
Annotation(ticks) == <<"  (execution time: ", ToString(ticks \div TicksPerMs), " ms)">>

\* isinstance(logobj, logging.Logger)
IsLogger(sink) == sink = "logger1"

\* ------------------------------------------------- LoggingConnection
\* initialize: the bound method stored in self.log
SelectLogAlwaysFile(sink) == "_logtofile"

SelectLog(sink) == IF IsLogger(sink) THEN "_logtologger" ELSE "_logtofile"

\* _check: "ok" or the error raised
CheckNever(obj) == "ok"

Check(obj) == IF obj = "unset" THEN "ProgrammingError" ELSE "ok"

\* filter(msg, curs) of class cls, elapsed ticks since curs.timestamp:
\* [raised |-> the error or "none", res |-> the returned message]
Filter(cls, msg, elapsed, threshold) ==
  IF cls = "LoggingConnection" THEN [raised |-> "none", res |-> msg]
  ELSE IF elapsed > threshold * TicksPerMs
       THEN IF msg = NONE THEN [raised |-> "TypeError", res |-> NONE]
            ELSE [raised |-> "none", res |-> msg \o <<LINESEP>> \o Annotation(elapsed)]
       ELSE [raised |-> "none", res |-> NONE]

\* time.time() - curs.timestamp in the timed filter, in ticks, at time t
ElapsedSinceLatestStamp(cursors, c, t) ==
  LET latest == CHOOSE m \in {cursors[d].timestamp : d \in DOMAIN cursors} :
                  \A d \in DOMAIN cursors : cursors[d].timestamp <= m
  IN t - latest

Elapsed(cursors, c, t) == t - cursors[c].timestamp

\* `if msg:` in _logtofile / _logtologger
LogGuardAlways(msg) == TRUE

LogGuard(msg) == Truthy(msg)

\* _logtofile / _logtologger after the filter returned msg: the calls made
\* on the sink and the error raised, if any.
SinkCallsOfNoLinesep(method, msg) ==
  IF ~LogGuard(msg) THEN [made |-> <<>>, raised |-> "none"]
  ELSE [made |-> <<[op |-> IF method = "_logtologger" THEN "debug" ELSE "write",
                    msg |-> msg]>>,
        raised |-> "none"]

SinkCallsOf(method, msg) ==
  IF ~LogGuard(msg) THEN [made |-> <<>>, raised |-> "none"]
  ELSE IF method = "_logtologger"
       THEN [made |-> <<[op |-> "debug", msg |-> msg]>>, raised |-> "none"]
       ELSE IF msg = NONE THEN [made |-> <<>>, raised |-> "TypeError"]
            ELSE [made |-> <<[op |-> "write", msg |-> msg \o <<LINESEP>>]>>,
                  raised |-> "none"]

\* try: ... finally: self.connection.log(self.query, self)
\* Whether the logging step runs after the primitive ended with `outcome`.
RunsLogOnlyOnReturn(outcome) == outcome = "return"

RunsLog(outcome) == TRUE

\* ------------------------------------------------- actions
NoCall == [name |-> "none", stmt |-> "", started |-> -1]
IdleCall == [name |-> "init", cursor |-> 0, prim |-> "none", observed |-> "return",
             events |-> <<>>, query |-> NONE, filterArg |-> NONE,
             filterRes |-> NONE, elapsed |-> 0, stmt |-> "",
             sink |-> "unset", threshold |-> -1]

LogInit ==
  /\ connClass \in {"LoggingConnection", "MinTimeLoggingConnection"}
  /\ logobj = "unset"
  /\ log = "unset"
  /\ mintime = -1
  /\ cur = [c \in Cursors |-> [class |-> "none", timestamp |-> -1, call |-> NoCall]]
  /\ now = 0
  /\ sinkCalls = [s \in Sinks |-> <<>>]
  /\ lastCall = IdleCall
  /\ calls = 0
  /\ nonEmpty = 0
  /\ uninitExec = FALSE

\* LoggingConnection.initialize(logobj) /
\* MinTimeLoggingConnection.initialize(logobj, mintime)
Initialize(sink, t) ==
  /\ logobj' = sink
  /\ log' = SelectLog(sink)
  /\ mintime' = IF connClass = "MinTimeLoggingConnection" THEN t ELSE mintime
  /\ lastCall' = [IdleCall EXCEPT !.name = "initialize", !.sink = sink,
                                  !.threshold = mintime']
  /\ UNCHANGED <<connClass, cur, now, sinkCalls, calls, nonEmpty, uninitExec>>

CursorClass(cls) ==
  IF cls = "MinTimeLoggingConnection" THEN "MinTimeLoggingCursor" ELSE "LoggingCursor"

\* connection.cursor(): _check(), then a cursor of the companion class
Cursor(c) ==
  /\ cur[c].class = "none"
  /\ \A d \in Cursors : d < c => cur[d].class # "none"
  /\ IF Check(logobj) = "ok"
     THEN /\ cur' = [cur EXCEPT ![c].class = CursorClass(connClass)]
          /\ lastCall' = [IdleCall EXCEPT !.name = "cursor", !.cursor = c]
     ELSE /\ cur' = cur
          /\ lastCall' = [IdleCall EXCEPT !.name = "cursor", !.cursor = c,
                                          !.observed = Check(logobj)]
  /\ UNCHANGED <<connClass, logobj, log, mintime, now, sinkCalls, calls,
                 nonEmpty, uninitExec>>

\* Time passes.  The clock is read only by MinTimeLoggingCursor.execute and
\* by the timed filter, so only the time that passes while a timed call is
\* running can be observed.
Tick ==
  /\ now < MaxClock
  /\ \E c \in Cursors : cur[c].class = "MinTimeLoggingCursor" /\ cur[c].call # NoCall
  /\ now' = now + 1
  /\ UNCHANGED <<connClass, logobj, log, mintime, cur, sinkCalls, lastCall,
                 calls, nonEmpty, uninitExec>>

\* LoggingCursor.execute / .callproc and MinTimeLoggingCursor.execute up to
\* the point where the wrapped primitive is running; the MinTime cursor
\* stores the start timestamp first.
Begin(c, name, q) ==
  /\ calls < MaxCalls
  /\ cur[c].class # "none"
  /\ cur[c].call = NoCall
  /\ ~(cur[c].class = "MinTimeLoggingCursor" /\ name = "callproc")
  /\ cur' = [cur EXCEPT ![c].call = [name |-> name, stmt |-> q, started |-> now],
                        ![c].timestamp =
                           IF cur[c].class = "MinTimeLoggingCursor" THEN now ELSE @]
  /\ calls' = calls + 1
  /\ UNCHANGED <<connClass, logobj, log, mintime, now, sinkCalls, lastCall,
                 nonEmpty, uninitExec>>

ExecuteBegin == \E c \in Cursors, q \in Queries : Begin(c, "execute", q)

CallprocBegin == \E c \in Cursors, q \in Queries \ {""} : Begin(c, "callproc", q)

\* The wrapped primitive ends: it returned (the query text is materialized),
\* raised after materializing it, or raised before (cursor.query is None);
\* `text` is cursor.query as it leaves it.  Then the finally clause runs
\* connection.log(self.query, self).
Finish(c, outcome, text) ==
  /\ cur[c].call # NoCall
  /\ LET call    == cur[c].call
         timed   == cur[c].class = "MinTimeLoggingCursor"
         elapsed == IF timed THEN Elapsed(cur, c, now) ELSE 0
         runs    == RunsLog(outcome)
         bound   == log # "unset"
         f       == Filter(connClass, text, elapsed, mintime)
         sc      == IF f.raised = "none" THEN SinkCallsOf(log, f.res)
                    ELSE [made |-> <<>>, raised |-> f.raised]
         logErr  == IF ~runs THEN "none"
                    ELSE IF ~bound THEN "AttributeError"
                    ELSE sc.raised
         made    == IF runs /\ bound THEN sc.made ELSE <<>>
         ev      == (IF timed THEN <<"timestamp">> ELSE <<>>)
                    \o <<"prim">>
                    \o (IF runs /\ bound THEN <<"filter">> ELSE <<>>)
                    \o [i \in DOMAIN made |-> made[i].op]
     IN
       /\ cur' = [cur EXCEPT ![c].call = NoCall]
       /\ sinkCalls' = IF made = <<>> THEN sinkCalls
                       ELSE [sinkCalls EXCEPT ![logobj] = @ \o made]
       /\ nonEmpty' = IF runs /\ bound /\ f.raised = "none" /\ Truthy(f.res)
                      THEN nonEmpty + 1 ELSE nonEmpty
       /\ uninitExec' = (uninitExec \/ logobj = "unset")
       /\ lastCall' = [name |-> call.name, cursor |-> c, prim |-> outcome,
                       observed |-> IF logErr # "none" THEN logErr
                                    ELSE IF outcome = "return" THEN "return"
                                    ELSE "prim_error",
                       events |-> ev,
                       query |-> text,
                       filterArg |-> IF runs /\ bound THEN text ELSE NONE,
                       filterRes |-> IF runs /\ bound THEN f.res ELSE NONE,
                       elapsed |-> elapsed,
                       stmt |-> call.stmt,
                       sink |-> "unset", threshold |-> -1]
  /\ UNCHANGED <<connClass, logobj, log, mintime, now, calls>>

FinishReturns ==
  \E c \in Cursors :
    /\ cur[c].call # NoCall
    /\ cur[c].call.stmt # ""
    /\ Finish(c, "return", Text(cur[c].call.stmt))

FinishRaises ==
  \E c \in Cursors :
    /\ cur[c].call # NoCall
    /\ \E text \in {Text(cur[c].call.stmt), NONE} : Finish(c, "raise", text)

\* MinTimeLoggingCursor.callproc: stores the timestamp, then evaluating the
\* arguments of LoggingCursor.execute(self, procname, var) raises NameError
\* (`var` is not defined): no primitive runs and nothing is logged.
TimedCallproc ==
  \E c \in Cursors, q \in Queries \ {""} :
    /\ calls < MaxCalls
    /\ cur[c].class = "MinTimeLoggingCursor"
    /\ cur[c].call = NoCall
    /\ cur' = [cur EXCEPT ![c].timestamp = now]
    /\ calls' = calls + 1
    /\ lastCall' = [IdleCall EXCEPT !.name = "callproc", !.cursor = c,
                                    !.observed = "NameError",
                                    !.events = <<"timestamp">>, !.stmt = q]
    /\ UNCHANGED <<connClass, logobj, log, mintime, now, sinkCalls, nonEmpty,
                   uninitExec>>

\* ================================================= specifications
\* ------------------------------------------------- SQL_IN
MaxSeq == 3

\* the Python objects a sequence may hold
Objs == {"int1", "int12", "strx", "None"}

Seqs == UNION {[1..n -> Objs] : n \in 0..MaxSeq}

VARIABLES
  _seq,        \* SQL_IN._seq: the wrapped sequence
  quoted      \* the last value returned by getquoted(), one character per
              \* element; <<>> before the first call on this object

svars == <<_seq, quoted>>

\* str(_A(o).getquoted()): the quoted SQL literal of one object
Adapt(o) ==
  CASE o = "int1" -> <<"1">>
    [] o = "int12" -> <<"1", "2">>
    [] o = "strx" -> <<"'", "x", "'">>
    [] o = "None" -> <<"N", "U", "L", "L">>

\* sep.join(strs)
RECURSIVE Join(_, _)
Join(sep, strs) ==
  IF strs = <<>> THEN <<>>
  ELSE IF Len(strs) = 1 THEN strs[1]
  ELSE strs[1] \o sep \o Join(sep, Tail(strs))

GetQuotedCommaOnly(s) ==
  <<"(">> \o Join(<<",">>, [i \in DOMAIN s |-> Adapt(s[i])]) \o <<")">>

\* SQL_IN.getquoted
GetQuoted(s) ==
  LET qobjs == [i \in DOMAIN s |-> Adapt(s[i])]
  IN <<"(">> \o Join(<<",", " ">>, qobjs) \o <<")">>

SqlInit ==
  /\ _seq = <<>>
  /\ quoted = <<>>

\* SQL_IN(seq): a new wrapper around a sequence
SqlIn ==
  \E s \in Seqs :
    /\ _seq' = s
    /\ quoted' = <<>>

\* the wrapper is asked for its literal
SqlGetQuoted ==
  /\ quoted' = GetQuoted(_seq)
  /\ UNCHANGED _seq

SqlNext ==
  \/ SqlIn /\ UNCHANGED <<dvars, lvars>>
  \/ SqlGetQuoted /\ UNCHANGED <<dvars, lvars>>

vars == <<dvars, lvars, svars>>

Init == DictInit /\ LogInit /\ SqlInit /\ connClass = "LoggingConnection"

Next ==
  \/ Execute /\ UNCHANGED <<lvars, svars>>
  \/ Callproc /\ UNCHANGED <<lvars, svars>>
  \/ Fetchone /\ UNCHANGED <<lvars, svars>>
  \/ Fetchmany /\ UNCHANGED <<lvars, svars>>
  \/ Fetchall /\ UNCHANGED <<lvars, svars>>
  \/ NextRow /\ UNCHANGED <<lvars, svars>>
  \/ RowGetItem /\ UNCHANGED <<lvars, svars>>

\* the index-aware cursor
Spec == Init /\ [][Next]_vars

LInit == DictInit /\ LogInit /\ SqlInit

LNext ==
  \/ \E sink \in Sinks, t \in 0..MaxMintime : Initialize(sink, t) /\ UNCHANGED <<dvars, svars>>
  \/ \E c \in Cursors : Cursor(c) /\ UNCHANGED <<dvars, svars>>
  \/ Tick /\ UNCHANGED <<dvars, svars>>
  \/ ExecuteBegin /\ UNCHANGED <<dvars, svars>>
  \/ CallprocBegin /\ UNCHANGED <<dvars, svars>>
  \/ FinishReturns /\ UNCHANGED <<dvars, svars>>
  \/ FinishRaises /\ UNCHANGED <<dvars, svars>>
  \/ TimedCallproc /\ UNCHANGED <<dvars, svars>>

\* the logging connections and their cursors
LogSpec == LInit /\ [][LNext]_vars

\* the sequence adapter
SqlSpec == LInit /\ [][SqlNext]_vars

\* ================================================= properties: DictCursor
NamesOf(desc) == {desc[i] : i \in DOMAIN desc}

\* C1: every row a fetch returns is bound to the cursor's current index,
\* whose names are exactly the column names of the most recently executed
\* statement, each mapped to a position holding that name; a name of an
\* earlier statement that the latest one lacks does not resolve.
C1_RowsSeeLatestColumns ==
  \A j \in DOMAIN lastOp.res :
    LET r == lastOp.res[j]
        m == dicts[r._index]
    IN /\ r._index = index
       /\ DOMAIN m = NamesOf(lastDesc)
       /\ \A n \in DOMAIN m :
            m[n] \in 0..(Len(lastDesc) - 1) /\ lastDesc[m[n] + 1] = n
       /\ \A n \in Names \ NamesOf(lastDesc) :
            GetItemByName(dicts, r, n).err = "KeyError"

\* A fetch returned rows of a second statement whose columns differ from an
\* earlier statement's, some earlier name being gone.
C1_Witness ==
  /\ Len(lastOp.res) > 0
  /\ \E h \in handed : /\ h.row._index # index
                       /\ NamesOf(h.desc) \ NamesOf(lastDesc) # {}
                       /\ NamesOf(lastDesc) \ NamesOf(h.desc) # {}

C3_NameLookupIsPositional ==
  \A h \in handed :
    /\ Len(h.row.vals) = Len(h.desc)
    /\ \A i \in 1..Len(h.desc) :
         /\ GetItemByName(dicts, h.row, h.desc[i]).err = "none"
         /\ GetItemByName(dicts, h.row, h.desc[i]) = GetItemByPos(h.row, i - 1)

\* A two-column row was handed out.
C3_Witness ==
  \E h \in handed : Len(h.desc) = 2 /\ Len(h.row.vals) = 2

\* C8: a next() that ends in StopIteration on a statement with descriptors
\* leaves the index built and the pending flag clear.
C8_StopStillBuilds ==
  (lastOp.name = "next" /\ lastOp.outcome = "StopIteration" /\ description # <<>>) =>
    query_executed = 0 /\ builds = 1

\* C9: the mapping a handed-out row resolves names against is still what it
\* was when the row was returned.
C9_HandedIndexFrozen ==
  \A h \in handed : dicts[h.row._index] = h.snap

\* A row of an earlier execution is still held while the cursor has moved
\* on to another statement whose index was built, and a row was handed out
\* before an execute that raised.
C9_Witness ==
  \E h \in handed :
    /\ h.row._index # index
    /\ h.snap # EmptyDict
    /\ \/ dicts[index] # EmptyDict /\ dicts[index] # h.snap
       \/ lastOp.name \in {"execute", "callproc"} /\ lastOp.outcome = "raise"

\* ================================================= properties: logging
Count(seq, x) == Cardinality({i \in DOMAIN seq : seq[i] = x})

Before(seq, x, y) ==
  \A i, j \in DOMAIN seq : (seq[i] = x /\ seq[j] = y) => i < j

\* sub occurs in msg as a run of consecutive tokens
Contains(msg, sub) ==
  \E k \in 0..(Len(msg) - Len(sub)) : SubSeq(msg, k + 1, k + Len(sub)) = sub

RECURSIVE TotalSinkCalls(_)
TotalSinkCalls(S) ==
  IF S = {} THEN 0
  ELSE LET s == CHOOSE x \in S : TRUE
       IN Len(sinkCalls[s]) + TotalSinkCalls(S \ {s})

IsCall == lastCall.name \in {"execute", "callproc"}

\* C4: while the connection is uninitialized no logging cursor exists, no
\* statement has run through one, and asking for a cursor fails with the
\* not-initialized error.
C4_NoLoggingBeforeInitialize ==
  /\ ~uninitExec
  /\ logobj = "unset" =>
       /\ \A c \in Cursors : cur[c].class = "none" /\ cur[c].call = NoCall
       /\ calls = 0
       /\ lastCall.name = "cursor" => lastCall.observed = "ProgrammingError"

\* cursor() was called on an uninitialized connection and raised.
C4_Witness ==
  /\ logobj = "unset"
  /\ lastCall.name = "cursor"
  /\ lastCall.observed = "ProgrammingError"

\* C5: on the base logging cursor every execute/callproc runs the filter
\* exactly once, after the wrapped primitive ended (returned or raised), on
\* the text the primitive materialized, and the caller sees the primitive's
\* own result or error.
C5_LogsOnceAfterPrimitive ==
  (connClass = "LoggingConnection" /\ IsCall) =>
    /\ Count(lastCall.events, "prim") = 1
    /\ Count(lastCall.events, "filter") = 1
    /\ Before(lastCall.events, "prim", "filter")
    /\ lastCall.filterArg = lastCall.query
    /\ lastCall.filterArg \in {Text(lastCall.stmt), NONE}
    /\ lastCall.prim = "return" => lastCall.filterArg = Text(lastCall.stmt)
    /\ lastCall.observed = (IF lastCall.prim = "return" THEN "return" ELSE "prim_error")

\* A callproc on a base logging cursor raised and was logged.
C5_Witness ==
  /\ connClass = "LoggingConnection"
  /\ lastCall.name = "callproc"
  /\ lastCall.prim = "raise"
  /\ lastCall.events = <<"prim", "filter", "write">>

\* C6: after an execute on a timed cursor under threshold T (ms): elapsed
\* <= T wrote nothing; elapsed > T wrote exactly one entry, holding the
\* statement text and the elapsed-time annotation.
C6_TimedGate ==
  (connClass = "MinTimeLoggingConnection" /\ lastCall.name = "execute") =>
    LET sunk == Count(lastCall.events, "write") + Count(lastCall.events, "debug")
        entries == sinkCalls[logobj]
    IN IF lastCall.elapsed <= mintime * TicksPerMs
       THEN sunk = 0
       ELSE /\ sunk = 1
            /\ Len(entries) > 0
            /\ Contains(entries[Len(entries)].msg, Text(lastCall.stmt))
            /\ Contains(entries[Len(entries)].msg, Annotation(lastCall.elapsed))

\* C7: a callproc on a timed cursor stores the timestamp, runs the wrapped
\* primitive, then the filter exactly once, and the caller sees the
\* primitive's own result or error.
C7_TimedCallprocLogs ==
  (lastCall.name = "callproc" /\ lastCall.cursor \in Cursors
     /\ connClass = "MinTimeLoggingConnection") =>
    /\ lastCall.prim \in {"return", "raise"}
    /\ Count(lastCall.events, "filter") = 1
    /\ Before(lastCall.events, "timestamp", "prim")
    /\ Before(lastCall.events, "prim", "filter")
    /\ lastCall.observed = (IF lastCall.prim = "return" THEN "return" ELSE "prim_error")

\* C10: no sink ever received an empty message (nor a bare line end), a
\* call whose filter result was empty or absent made no sink call, and the
\* sink calls number the calls whose filter result was non-empty.
C10_NoEmptyLogEntry ==
  /\ \A s \in Sinks : \A i \in DOMAIN sinkCalls[s] :
       /\ Truthy(sinkCalls[s][i].msg)
       /\ sinkCalls[s][i].op = "write" => sinkCalls[s][i].msg # <<LINESEP>>
  /\ (IsCall /\ ~Truthy(lastCall.filterRes)) =>
       Count(lastCall.events, "write") + Count(lastCall.events, "debug") = 0
  /\ TotalSinkCalls(Sinks) = nonEmpty

\* One call was logged and the last one, whose filter ran and gave an empty
\* or absent result, was not.
C10_Witness ==
  /\ nonEmpty = 1
  /\ calls = 2
  /\ IsCall
  /\ Count(lastCall.events, "filter") = 1
  /\ ~Truthy(lastCall.filterRes)

\* C11: when the wrapped primitive of an execute on a timed cursor raises,
\* the logging step still runs and the caller sees the primitive's own
\* error, whatever the statement text (empty or absent included) and the
\* elapsed time; never an error of the filter.
C11_TimedExecuteKeepsError ==
  (connClass = "MinTimeLoggingConnection" /\ lastCall.name = "execute"
     /\ lastCall.prim = "raise") =>
    /\ Count(lastCall.events, "filter") = 1
    /\ Before(lastCall.events, "prim", "filter")
    /\ lastCall.observed = "prim_error"

\* ================================================= properties: DictRow
Defaults == {-7, 99}

\* the 0-based position of name n among the descriptors desc
PositionOf(desc, n) == (CHOOSE i \in DOMAIN desc : desc[i] = n) - 1

\* C12: get(name, default) never raises; it returns the default for a name
\* the row's statement has no column for, and the value at the column's
\* position otherwise.
C12_GetNeverRaises ==
  \A h \in handed : \A n \in Names : \A d \in Defaults :
    LET g == Get(dicts, h.row, n, d)
    IN /\ g.err = "none"
       /\ g.val = IF n \in NamesOf(h.desc)
                  THEN h.row.vals[PositionOf(h.desc, n) + 1]
                  ELSE d

\* A row is held that has a column for one name and none for another.
C12_Witness ==
  \E h \in handed :
    /\ NamesOf(h.desc) # {}
    /\ Names \ NamesOf(h.desc) # {}
    /\ h.row._index # index

\* C14: for every row, keys() is the column names in descriptor order and
\* items() the pairs (name, value) in that order.
C14_KeysInDescriptorOrder ==
  \A h \in handed :
    /\ \A k \in Keys(dicts, h.row) : k = h.desc
    /\ \A it \in Items(dicts, h.row) :
         it = [i \in DOMAIN h.desc |-> <<h.desc[i], h.row.vals[i]>>]

\* C13: row[name] with a name the row has no column for fails with KeyError,
\* and the failed lookup leaves the rows handed out, the cursor's index, its
\* pending flag and its result set as they were, so that the fetches that
\* follow find the state they would have found without it.
C13_FailedLookupChangesNothing ==
  /\ [](\A h \in handed : \A n \in Names \ NamesOf(h.desc) :
          GetItemByName(dicts, h.row, n).err = "KeyError")
  /\ [][(lastOp'.name = "getitem" /\ lastOp'.outcome = "KeyError") =>
          UNCHANGED <<dicts, index, row_factory, query_executed, description,
                      rows, handed, builds, fetchCalls, fetchReturns, builtAt,
                      builtSnap, lastDesc, execs>>]_vars

\* A lookup failed while rows of the current result set were still to fetch.
C13_Witness ==
  /\ lastOp.name = "getitem"
  /\ lastOp.outcome = "KeyError"
  /\ rows # NoRows

\* the offset in the literal of the character before element i's literal
RECURSIVE OffsetOf(_, _)
OffsetOf(s, i) ==
  IF i = 1 THEN 1 ELSE OffsetOf(s, i - 1) + Len(Adapt(s[i - 1])) + 2

\* C15: the literal of a sequence is "(", then the quoted literal of each
\* element in the sequence's order, consecutive ones separated by exactly a
\* comma and one space, then ")"; the empty sequence gives "()".
C15_SqlInLiteral ==
  quoted # <<>> =>
    LET n == Len(_seq)
        end == IF n = 0 THEN 1 ELSE OffsetOf(_seq, n) + Len(Adapt(_seq[n]))
    IN /\ Len(quoted) = end + 1
       /\ quoted[1] = "("
       /\ quoted[end + 1] = ")"
       /\ n = 0 => quoted = <<"(", ")">>
       /\ \A i \in 1..n :
            LET o == OffsetOf(_seq, i)
                l == Len(Adapt(_seq[i]))
            IN /\ SubSeq(quoted, o + 1, o + l) = Adapt(_seq[i])
               /\ i < n => /\ quoted[o + l + 1] = ","
                           /\ quoted[o + l + 2] = " "

\* getquoted() answered for a sequence of several elements of different kinds
C15_Witness ==
  /\ Len(_seq) >= 2
  /\ quoted # <<>>
  /\ \E i, j \in DOMAIN _seq : Len(Adapt(_seq[i])) # Len(Adapt(_seq[j]))

\* C16: execute and callproc delegate to the wrapped primitive first and mark
\* the index pending only afterwards: a call whose primitive raises leaves the
\* cursor's index (the same dict, with the same content) and its pending flag
\* as they were before the call.
C16_FailedExecuteKeepsIndex ==
  [][(execs' = execs + 1 /\ lastOp'.outcome = "raise") =>
       /\ index' = index
       /\ dicts'[index'] = dicts[index]
       /\ query_executed' = query_executed]_vars

\* a step in which the logging step of some cursor's call ran
FinishStep == \E c \in Cursors : cur[c].call # NoCall /\ cur'[c].call = NoCall

\* the one call a sink of the given kind receives for message msg
EntryFor(sink, msg) ==
  IF IsLogger(sink) THEN [op |-> "debug", msg |-> msg]
  ELSE [op |-> "write", msg |-> msg \o <<LINESEP>>]

\* C17: the sink and the threshold are those of the most recent initialize
\* and only initialize changes them; every log entry is one call on that
\* sink, debug(message) on a logger and write(message + line terminator) on
\* a stream, no other sink receives anything; the timed decision uses that
\* threshold; an initialized connection stays initialized.
C17_LatestInitializeRules ==
  /\ [](lastCall.name = "initialize" =>
          /\ logobj = lastCall.sink
          /\ connClass = "MinTimeLoggingConnection" => mintime = lastCall.threshold)
  /\ [][/\ (logobj' # logobj \/ mintime' # mintime \/ log' # log) =>
             lastCall'.name = "initialize"
        /\ logobj # "unset" => logobj' # "unset"
        /\ \A s \in Sinks :
             sinkCalls'[s] # sinkCalls[s] =>
               /\ FinishStep
               /\ s = logobj
               /\ sinkCalls'[s] =
                    Append(sinkCalls[s], EntryFor(logobj, lastCall'.filterRes))
        /\ (/\ FinishStep
            /\ connClass = "MinTimeLoggingConnection"
            /\ logobj # "unset"
            /\ Truthy(lastCall'.query)) =>
             (lastCall'.elapsed > mintime * TicksPerMs
                <=> sinkCalls'[logobj] # sinkCalls[logobj])]_vars

\* after a second initialize with another sink and another threshold, both
\* sinks hold an entry: the stream's came first, the logger's is the last
\* one written
C17_Witness ==
  /\ connClass = "MinTimeLoggingConnection"
  /\ sinkCalls["file1"] # <<>>
  /\ sinkCalls["logger1"] # <<>>
  /\ logobj = "logger1"
  /\ mintime = MaxMintime
  /\ lastCall.prim # "none"
  /\ sinkCalls["logger1"][Len(sinkCalls["logger1"])].msg = lastCall.filterRes

\* C18: on a LoggingConnection (identity filter) writing to a stream, every
\* completed execute/callproc, returned or raised, appends its statement
\* text as the primitive left it, followed by one line terminator, unless the
\* text is empty, and nothing else writes to the stream: the stream holds the
\* non-empty texts in the order the calls completed.
C18_StreamHoldsTextsInOrder ==
  [][(connClass = "LoggingConnection" /\ logobj # "unset" /\ ~IsLogger(logobj)) =>
       IF FinishStep
       THEN sinkCalls'[logobj] =
              sinkCalls[logobj] \o
                (IF Truthy(lastCall'.query)
                 THEN <<[op |-> "write", msg |-> lastCall'.query \o <<LINESEP>>]>>
                 ELSE <<>>)
       ELSE sinkCalls'[logobj] = sinkCalls[logobj]]_vars

\* the stream holds two different statements, the second from a call that
\* raised
C18_Witness ==
  /\ connClass = "LoggingConnection"
  /\ logobj = "file1"
  /\ Len(sinkCalls["file1"]) = 2
  /\ sinkCalls["file1"][1].msg # sinkCalls["file1"][2].msg
  /\ lastCall.prim = "raise"
  /\ sinkCalls["file1"][2].msg = <<lastCall.stmt, LINESEP>>

\* C19: on a MinTimeLoggingConnection, when a statement's logging step runs,
\* the elapsed time is the time since that statement's own execution started
\* on its own cursor, whatever other cursors started or finished meanwhile and
\* whatever the cursor ran before: the entry is made exactly when that time
\* exceeds the threshold, and the entry renders that time.
C19_OwnTimestampDecides ==
  [][\A c \in Cursors :
       (/\ cur[c].call # NoCall
        /\ cur'[c].call = NoCall
        /\ cur[c].class = "MinTimeLoggingCursor"
        /\ lastCall'.query # NONE) =>
         LET e == now - cur[c].call.started IN
           /\ lastCall'.elapsed = e
           /\ IF e > mintime * TicksPerMs
              THEN sinkCalls'[logobj] =
                     Append(sinkCalls[logobj],
                            EntryFor(logobj, lastCall'.query \o <<LINESEP>> \o Annotation(e)))
              ELSE sinkCalls' = sinkCalls]_vars

\* cursor 1's statement was logged while cursor 2's, started later, was
\* still running
C19_Witness ==
  /\ connClass = "MinTimeLoggingConnection"
  /\ lastCall.cursor = 1
  /\ lastCall.prim # "none"
  /\ cur[2].call # NoCall
  /\ cur[2].timestamp > cur[1].timestamp
  /\ lastCall.elapsed > mintime * TicksPerMs
  /\ lastCall.elapsed > now - cur[2].timestamp
  /\ Truthy(lastCall.filterRes)

====
